---- MODULE Spec2Model ----
(***************************************************************************)
(* A model of the elgato-keylight controller (src/src/keylight.rs):        *)
(* discovery by name (new_from_name), construction (create), the           *)
(* background poll task (poll_status), get() and the four setters, with    *)
(* the device and the network as the environment.                          *)
(***************************************************************************)
EXTENDS Integers, Sequences, FiniteSets, TLC

(* ------------------------------ bounds -------------------------------- *)
\* foreground calls (get / setters) made on one controller
MaxOps == 2
\* interval ticks taken by the poll task
MaxTicks == 2
\* changes of the device made by somebody else (the vendor application)
MaxExt == 1
\* service announcements seen by the discovery worker
MaxAnnounce == 3

(* ------------------------- program constants -------------------------- *)
DefaultPort == 9123
ChannelCap == 200
BrightnessMax == 100
KelvinMin == 2900
KelvinMax == 7000
CodeMin == 143
CodeMax == 344
KelvinSpan == 4100

(* ------------------------------ values -------------------------------- *)
Light(on, b, t) == [on |-> on, brightness |-> b, temperature |-> t]

Status(n, ls) == [number_of_lights |-> n, lights |-> ls]

\* #[derive(Default)] for Status: no lights
DefaultStatus == Status(0, <<>>)

\* the states the device is in at start or is put in by somebody else
DeviceStates ==
  { Status(1, <<Light(0, 50, 200)>>),
    Status(2, <<Light(1, 10, 143), Light(0, 95, 344)>>) }

Ok(v) == [ok |-> TRUE, val |-> <<v>>, err |-> ""]

Err(e) == [ok |-> FALSE, val |-> <<>>, err |-> e]

(* ------------------------ the device's HTTP API ----------------------- *)
\* What a GET of the status endpoint can come back with while the device is
\* in state dev: no response at all (transport failure), 200 with the status,
\* 200 with a body that is no Status, or a non-success status with an error
\* body.  body is <<s>> when it decodes to the Status s and <<>> when not.
GetResponses(dev) ==
  { [transport |-> FALSE, success |-> FALSE, body |-> <<>>],
    [transport |-> TRUE, success |-> TRUE, body |-> <<dev>>],
    [transport |-> TRUE, success |-> TRUE, body |-> <<>>],
    [transport |-> TRUE, success |-> FALSE, body |-> <<>>] }

\* What a PUT of body can do: it never reaches the device, the device applies
\* it and answers 200, the device applies it and the answer is lost, or the
\* device refuses it with a non-success status and stays as it is.
PutOutcomes(dev, body) ==
  { [device |-> dev, resp |-> [transport |-> FALSE, success |-> FALSE, body |-> <<>>]],
    [device |-> body, resp |-> [transport |-> TRUE, success |-> TRUE, body |-> <<>>]],
    [device |-> body, resp |-> [transport |-> FALSE, success |-> FALSE, body |-> <<>>]],
    [device |-> dev, resp |-> [transport |-> TRUE, success |-> FALSE, body |-> <<>>]] }

(* --------------------------- DeviceTransport -------------------------- *)
\* client.get(url).send().await? then resp.json::<Status>().await?
\* send() fails on a transport failure only; json() fails when the body does
\* not decode.  The HTTP status is not looked at.
get_status(resp) ==
  IF ~resp.transport THEN Err("RequestError")
  ELSE IF resp.body = <<>> THEN Err("RequestError")
  ELSE Ok(resp.body[1])

\* client.put(url).json(&current).send().await?
\* fails on a transport failure only; the HTTP status is not looked at.
put_send(resp) ==
  IF ~resp.transport THEN Err("RequestError") ELSE Ok(<<>>)

(* --------------------------- value mappings --------------------------- *)
Clamp(x, lo, hi) == IF x < lo THEN lo ELSE IF x > hi THEN hi ELSE x

\* the argument passed on as it came
ClampBrightness_None(b) == b

\* if brightness > 100 { brightness = 100 }   (brightness: u8)
ClampBrightness(b) == IF b > BrightnessMax THEN BrightnessMax ELSE b

\* the map taken downwards: 2900 K at the top of the code range
TempCode_Inverse(k) ==
  Clamp(CodeMax - ((Clamp(k, KelvinMin, KelvinMax) - KelvinMin) * (CodeMax - CodeMin))
                    \div KelvinSpan,
        CodeMin, CodeMax)

\* ((k as f32).clamp(2900.0, 7000.0) - 2900.0) / (4100.0 / (344.0 - 143.0)) + 143.0,
\* clamped to [143.0, 344.0] and cast with `as u16`, which truncates.  For every
\* k the f32 computation gives the same code as this integer division.
TempCode(k) ==
  Clamp(CodeMin + ((Clamp(k, KelvinMin, KelvinMax) - KelvinMin) * (CodeMax - CodeMin))
                    \div KelvinSpan,
        CodeMin, CodeMax)

\* The delta of set_relative_brightness is carried in thousandths (dm = 1000 * d),
\* so that d * 100.0 is dm tenths of a brightness unit.
\* if brightness > 1.0 { brightness = 1.0 }: the upper side only.
ClampDelta(dm) == IF dm > 1000 THEN 1000 ELSE dm

\* nv = (i.brightness as f64 + brightness * 100.0).clamp(0.0, 100.0), in tenths
RelNv10(c, dm) == Clamp(10 * c + ClampDelta(dm), 0, 1000)

\* i.brightness = nv as u8: the cast truncates
RelBrightness(c, dm) == RelNv10(c, dm) \div 10

\* for i in current.lights.iter_mut() { i.on = power as u8; }
\* (power is carried as the u8 it is cast to: 1 for true, 0 for false)
MutPower(s, power) ==
  [s EXCEPT !.lights = [i \in 1..Len(s.lights) |-> [s.lights[i] EXCEPT !.on = power]]]

\* for i in current.lights.iter_mut() { i.brightness = brightness; }
MutBrightness(s, b) ==
  [s EXCEPT !.lights =
     [i \in 1..Len(s.lights) |-> [s.lights[i] EXCEPT !.brightness = ClampBrightness(b)]]]

\* the loop left after its first light
MutTemperature_FirstOnly(s, k) ==
  [s EXCEPT !.lights =
     [i \in 1..Len(s.lights) |->
        IF i = 1 THEN [s.lights[i] EXCEPT !.temperature = TempCode(k)] ELSE s.lights[i]]]

\* for i in current.lights.iter_mut() { i.temperature = temperature; }
MutTemperature(s, k) ==
  [s EXCEPT !.lights =
     [i \in 1..Len(s.lights) |-> [s.lights[i] EXCEPT !.temperature = TempCode(k)]]]

\* for i in current.lights.iter_mut() { ...; i.brightness = nv as u8; avg.push(nv); }
MutRelative(s, dm) ==
  [s EXCEPT !.lights =
     [i \in 1..Len(s.lights) |->
        [s.lights[i] EXCEPT !.brightness = RelBrightness(s.lights[i].brightness, dm)]]]

RECURSIVE SumNv10(_, _)
SumNv10(ls, dm) ==
  IF ls = <<>> THEN 0 ELSE RelNv10(Head(ls).brightness, dm) + SumNv10(Tail(ls), dm)

\* avg.iter().sum::<f64>() / avg.len() as f64, kept as the sum (in tenths) and
\* the count: with no light the quotient is 0.0 / 0.0
RelFeedback(s, dm) == [sum10 |-> SumNv10(s.lights, dm), count |-> Len(s.lights)]

\* a setter call: which setter, and its argument
SetterCalls ==
  { [op |-> "set_power", arg |-> p] : p \in {1} }
  \cup { [op |-> "set_brightness", arg |-> b] : b \in {200} }
  \cup { [op |-> "set_temperature", arg |-> k] : k \in {4950} }
  \cup { [op |-> "set_relative_brightness", arg |-> dm] : dm \in {-155} }

SetterNames ==
  {"set_power", "set_brightness", "set_temperature", "set_relative_brightness"}

\* the clone of the cache with the setter's mutation applied: the PUT body
Mutate(call, s) ==
  CASE call.op = "set_power" -> MutPower(s, call.arg)
    [] call.op = "set_brightness" -> MutBrightness(s, call.arg)
    [] call.op = "set_temperature" -> MutTemperature(s, call.arg)
    [] call.op = "set_relative_brightness" -> MutRelative(s, call.arg)

\* what the setter returns on success: () or, for the relative setter, the mean
SetterValue(call, s) ==
  IF call.op = "set_relative_brightness" THEN Ok(RelFeedback(s, call.arg)) ELSE Ok(<<>>)

(* ------------------------------- state -------------------------------- *)
VARIABLES
  fpc,        \* where the caller is: "start", "disc_recv", "creating", "idle",
              \* "set_put", "get_fetch", "failed", "abandoned", "dropped"
  poll,       \* KeyLight.poll
  name,       \* KeyLight.name
  url,        \* KeyLight.url, as the address and port it is formatted from
  status,     \* KeyLight.status: the cache, behind the mutex
  locked,     \* the mutex is held (by a setter, across its PUT)
  call,       \* the setter call in progress
  current,    \* the setter's local `current`: the PUT body
  pre,        \* the cache as it was when the call in progress began
  reqs,       \* HTTP requests sent by the caller's last (or present) call
  ret,        \* what the caller's last call returned
  justFailed, \* a setter has just returned an error and nothing happened since
  afterFail,  \* the last get() was issued in such a state
  sawPollFail, \* the last get() was issued after a refresh of the poll task had failed
  lastPut,    \* the response the last setter's PUT came back with
  device,     \* the state of the device itself
  ppc,        \* the poll task: "off", "waiting", "fetched", "exited"
  pollResp,   \* the response the poll task is about to handle
  pollFailed, \* some refresh of the poll task has failed
  cancelClosed, \* every Sender of the poll task's cancel channel is dropped
  cacheFrom,  \* where the cached value comes from: which request, and its HTTP status
  lastSet,    \* <<the last successful setter's commit>>, until the device is changed
              \* by somebody else or another setter is called
  nOps, nTicks, nExt,
  wpc,        \* the discovery worker: "none", "browsing", "exited", "panicked"
  rxq,        \* the tokio channel tx -> rx of matching services
  rxAlive,    \* rx is not dropped
  crxMsg,     \* messages in the std channel ctx -> crx
  ctxAlive,   \* ctx is not dropped
  annLog,     \* every announcement the browser has reported, in order
  found       \* <<m>>: what rx.recv() gave the caller

ctl == <<fpc, poll, name, url, status, locked, call, current, pre, reqs, ret,
         justFailed, afterFail, sawPollFail, lastPut, device, ppc, pollResp, pollFailed, cancelClosed,
         cacheFrom, lastSet, nOps, nTicks, nExt>>

disc == <<wpc, rxq, rxAlive, crxMsg, ctxAlive, annLog, found>>

vars == <<ctl, disc>>

NoRet == [op |-> "none", ok |-> TRUE, val |-> <<>>, err |-> ""]

Ret(op, res) == [op |-> op, ok |-> res.ok, val |-> res.val, err |-> res.err]

NoCall == [op |-> "none", arg |-> 0]

NoResp == [transport |-> FALSE, success |-> FALSE, body |-> <<>>]

NoUrl == [address |-> "", port |-> 0]

Init ==
  /\ fpc = "start"
  /\ poll = FALSE
  /\ name = ""
  /\ url = NoUrl
  /\ status = DefaultStatus
  /\ locked = FALSE
  /\ call = NoCall
  /\ current = DefaultStatus
  /\ pre = DefaultStatus
  /\ reqs = 0
  /\ ret = NoRet
  /\ justFailed = FALSE
  /\ afterFail = FALSE
  /\ sawPollFail = FALSE
  /\ lastPut = NoResp
  /\ device \in DeviceStates
  /\ ppc = "off"
  /\ pollResp = NoResp
  /\ pollFailed = FALSE
  /\ cancelClosed = FALSE
  /\ cacheFrom = [via |-> "default", success |-> FALSE]
  /\ lastSet = <<>>
  /\ nOps = 0
  /\ nTicks = 0
  /\ nExt = 0
  /\ wpc = "none"
  /\ rxq = <<>>
  /\ rxAlive = FALSE
  /\ crxMsg = 0
  /\ ctxAlive = FALSE
  /\ annLog = <<>>
  /\ found = <<>>

(* ---------------------------- construction ---------------------------- *)
\* new_from_ip(name, addr, poll): create(name, addr, 9123, poll); create builds
\* the KeyLight with a default (empty) cache and sends the first GET
NewFromIp(p) ==
  /\ fpc = "start"
  /\ fpc' = "creating"
  /\ poll' = p
  /\ name' = "Key Light 2000"
  /\ url' = [address |-> "10.0.1.32", port |-> DefaultPort]
  /\ reqs' = 1
  /\ UNCHANGED <<sawPollFail, lastPut, status, locked, call, current, pre, ret, justFailed, afterFail,
                 device, ppc, pollResp, pollFailed, cancelClosed, cacheFrom,
                 lastSet, nOps, nTicks, nExt>>
  /\ UNCHANGED disc

\* the spawn done whatever the flag says
SpawnPoll_Always == TRUE

\* if poll { tokio::spawn(KeyLight::poll_status(...)) }
SpawnPoll == poll

\* let s = k.get_status().await?; *k.status.lock().await.deref_mut() = s;
\* if poll { spawn }; Ok(k).  When create was called by new_from_name,
\* returning drops rx and ctx.
CreateResp ==
  /\ fpc = "creating"
  /\ \E r \in GetResponses(device) :
       LET res == get_status(r) IN
         /\ ret' = Ret("create", res)
         /\ IF res.ok
              THEN /\ status' = res.val[1]
                   /\ cacheFrom' = [via |-> "fetch", success |-> r.success]
                   /\ ppc' = IF SpawnPoll THEN "waiting" ELSE "off"
                   /\ fpc' = "idle"
              ELSE /\ fpc' = "failed"
                   /\ UNCHANGED <<status, cacheFrom, ppc>>
  /\ rxAlive' = FALSE
  /\ ctxAlive' = FALSE
  /\ UNCHANGED <<poll, name, url, locked, call, current, pre, reqs, justFailed,
                 afterFail, sawPollFail, lastPut, device, pollResp, pollFailed,
                 cancelClosed, lastSet,
                 nOps, nTicks, nExt>>
  /\ UNCHANGED <<wpc, rxq, crxMsg, annLog, found>>

(* ------------------------------- setters ------------------------------- *)
\* let mut lock = self.status.lock().await; let mut current = lock.clone();
\* for i in current.lights.iter_mut() { ... }
\* self.client.put(&self.url).json(&current).send()   -- the PUT is on its way
SetCall(c) ==
  /\ fpc = "idle"
  /\ nOps < MaxOps
  /\ ~locked
  /\ locked' = TRUE
  /\ call' = c
  /\ pre' = status
  /\ current' = Mutate(c, status)
  /\ reqs' = 1
  /\ ret' = NoRet
  /\ fpc' = "set_put"
  /\ justFailed' = FALSE
  /\ lastSet' = <<>>
  /\ lastPut' = NoResp
  /\ nOps' = nOps + 1
  /\ UNCHANGED <<sawPollFail, poll, name, url, status, afterFail, device, ppc, pollResp,
                 pollFailed, cancelClosed, cacheFrom, nTicks, nExt>>
  /\ UNCHANGED disc

\* the commit done before the PUT's outcome is looked at
Commit_Always(res, cur, old) == cur

\* ....send().await?;  *lock.deref_mut() = current;
\* the cache after the PUT has come back with res
Commit(res, cur, old) == IF res.ok THEN cur ELSE old

\* the device handles the PUT (or never sees it), the setter gets the outcome,
\* commits or returns the error, and the lock guard is dropped on return
PutResp ==
  /\ fpc = "set_put"
  /\ \E o \in PutOutcomes(device, current) :
       LET res == put_send(o.resp) IN
         /\ device' = o.device
         /\ lastPut' = o.resp
         /\ status' = Commit(res, current, status)
         /\ ret' = IF res.ok THEN Ret(call.op, SetterValue(call, pre))
                             ELSE Ret(call.op, res)
         /\ justFailed' = ~res.ok
         /\ cacheFrom' = IF res.ok THEN [via |-> "push", success |-> o.resp.success]
                                   ELSE cacheFrom
         /\ lastSet' = IF res.ok
                         THEN <<[status |-> current, op |-> call.op,
                                 accepted |-> o.resp.success]>>
                         ELSE <<>>
  /\ locked' = FALSE
  /\ call' = NoCall
  /\ current' = DefaultStatus
  /\ fpc' = "idle"
  /\ UNCHANGED <<sawPollFail, poll, name, url, pre, reqs, afterFail, ppc,
                 pollResp, pollFailed, cancelClosed, nOps, nTicks, nExt>>
  /\ UNCHANGED disc

(* --------------------------------- get --------------------------------- *)
\* the branch on self.poll lost: every get() fetches
GetFromCache_Never == FALSE

\* the branch on self.poll taken the wrong way round
GetFromCache_Inverted == ~poll

\* if self.poll { cached } else { self.get_status().await }
GetFromCache == poll

\* Ok(self.status.lock().await.clone())
Get ==
  /\ fpc = "idle"
  /\ nOps < MaxOps
  /\ GetFromCache
  /\ ~locked
  /\ ret' = Ret("get", Ok(status))
  /\ reqs' = 0
  /\ afterFail' = justFailed
  /\ sawPollFail' = pollFailed
  /\ justFailed' = FALSE
  /\ nOps' = nOps + 1
  /\ UNCHANGED <<lastPut, fpc, poll, name, url, status, locked, call, current, pre, device,
                 ppc, pollResp, pollFailed, cancelClosed, cacheFrom, lastSet,
                 nTicks, nExt>>
  /\ UNCHANGED disc

\* self.get_status(): the GET is on its way
GetCall ==
  /\ fpc = "idle"
  /\ nOps < MaxOps
  /\ ~GetFromCache
  /\ fpc' = "get_fetch"
  /\ ret' = NoRet
  /\ reqs' = 1
  /\ afterFail' = justFailed
  /\ sawPollFail' = pollFailed
  /\ justFailed' = FALSE
  /\ nOps' = nOps + 1
  /\ UNCHANGED <<lastPut, poll, name, url, status, locked, call, current, pre, device,
                 ppc, pollResp, pollFailed, cancelClosed, cacheFrom, lastSet,
                 nTicks, nExt>>
  /\ UNCHANGED disc

\* a get() that keeps what it fetched in the cache
GetResp_Caching ==
  /\ fpc = "get_fetch"
  /\ \E r \in GetResponses(device) :
       LET res == get_status(r) IN
         /\ ret' = Ret("get", res)
         /\ status' = IF res.ok THEN res.val[1] ELSE status
  /\ fpc' = "idle"
  /\ UNCHANGED <<sawPollFail, lastPut, poll, name, url, locked, call, current, pre, reqs,
                 justFailed, afterFail, device, ppc, pollResp, pollFailed,
                 cancelClosed, cacheFrom, lastSet, nOps, nTicks, nExt>>
  /\ UNCHANGED disc

\* the device answers and get_status returns
GetResp ==
  /\ fpc = "get_fetch"
  /\ \E r \in GetResponses(device) : ret' = Ret("get", get_status(r))
  /\ fpc' = "idle"
  /\ UNCHANGED <<sawPollFail, lastPut, poll, name, url, status, locked, call, current, pre, reqs,
                 justFailed, afterFail, device, ppc, pollResp, pollFailed,
                 cancelClosed, cacheFrom, lastSet, nOps, nTicks, nExt>>
  /\ UNCHANGED disc

(* ------------------------------ poll task ------------------------------ *)
\* the tick with the mutex taken before the GET and kept until the write
PollTick_Locked ==
  /\ ppc = "waiting"
  /\ nTicks < MaxTicks
  /\ ~locked
  /\ locked' = TRUE
  /\ \E r \in GetResponses(device) : pollResp' = r
  /\ ppc' = "fetched"
  /\ nTicks' = nTicks + 1
  /\ justFailed' = FALSE
  /\ UNCHANGED <<sawPollFail, lastPut, fpc, poll, name, url, status, call, current, pre, reqs,
                 ret, afterFail, device, pollFailed, cancelClosed, cacheFrom,
                 lastSet, nOps, nExt>>
  /\ UNCHANGED disc

\* _ = interval.tick() => client.get(&url).send().await: the GET is sent and
\* the device answers it from the state it is in now
PollTick ==
  /\ ppc = "waiting"
  /\ nTicks < MaxTicks
  /\ \E r \in GetResponses(device) : pollResp' = r
  /\ ppc' = "fetched"
  /\ nTicks' = nTicks + 1
  /\ justFailed' = FALSE
  /\ UNCHANGED <<sawPollFail, lastPut, fpc, poll, name, url, status, locked, call, current, pre, reqs,
                 ret, afterFail, device, pollFailed, cancelClosed, cacheFrom,
                 lastSet, nOps, nExt>>
  /\ UNCHANGED disc

\* a failed refresh taken as an empty Status (unwrap_or_default)
PollDecode_OrDefault(resp) ==
  IF ~resp.transport THEN Ok(DefaultStatus)
  ELSE IF resp.body = <<>> THEN Ok(DefaultStatus)
  ELSE Ok(resp.body[1])

\* match send { Ok(data) => match data.json::<Status>() { Ok(status) => ..., Err(_) => {} },
\*              Err(_) => {} }
PollDecode(resp) ==
  IF ~resp.transport THEN Err("RequestError")
  ELSE IF resp.body = <<>> THEN Err("RequestError")
  ELSE Ok(resp.body[1])

\* the cache written without waiting for the mutex
PollMayLock_Always == TRUE

\* cache.lock().await: the poll task gets the mutex only when no setter holds it
PollMayLock == ~locked

\* Ok(status) => { *cache.lock().await.deref_mut() = status; }  Err(_) => {}
PollWrite ==
  /\ ppc = "fetched"
  /\ LET res == PollDecode(pollResp) IN
       IF res.ok
         THEN /\ PollMayLock
              /\ status' = res.val[1]
              /\ cacheFrom' = [via |-> "fetch", success |-> pollResp.success]
              /\ UNCHANGED pollFailed
         ELSE /\ pollFailed' = TRUE
              /\ UNCHANGED <<status, cacheFrom>>
  /\ ppc' = "waiting"
  /\ pollResp' = NoResp
  /\ justFailed' = FALSE
  /\ UNCHANGED <<sawPollFail, lastPut, fpc, poll, name, url, locked, call, current, pre, reqs, ret,
                 afterFail, device, cancelClosed, lastSet, nOps, nTicks, nExt>>
  /\ UNCHANGED disc

\* the cancel arm taken although nothing was sent and no Sender was dropped
CancelRecvReady_Always == TRUE

\* cancel.recv() completes with a message or, once every Sender is dropped,
\* with None.  Nothing in the library sends on poll_cancel, so it completes
\* only when the channel is closed.
CancelRecvReady == cancelClosed

\* _ = cancel.recv() => { return; }: the pattern `_` takes Some(_) and None alike
PollExit ==
  /\ ppc = "waiting"
  /\ CancelRecvReady
  /\ ppc' = "exited"
  /\ justFailed' = FALSE
  /\ UNCHANGED <<sawPollFail, lastPut, fpc, poll, name, url, status, locked, call, current, pre, reqs,
                 ret, afterFail, device, pollResp, pollFailed, cancelClosed,
                 cacheFrom, lastSet, nOps, nTicks, nExt>>
  /\ UNCHANGED disc

\* the caller drops the KeyLight, and with it poll_cancel, the only Sender
Drop ==
  /\ fpc = "idle"
  /\ fpc' = "dropped"
  /\ cancelClosed' = TRUE
  /\ justFailed' = FALSE
  /\ UNCHANGED <<sawPollFail, lastPut, poll, name, url, status, locked, call, current, pre, reqs, ret,
                 afterFail, device, ppc, pollResp, pollFailed, cacheFrom,
                 lastSet, nOps, nTicks, nExt>>
  /\ UNCHANGED disc

(* ------------------------------ environment ---------------------------- *)
\* somebody else (the vendor application, the device's buttons) changes the device
ExternalChange ==
  /\ nExt < MaxExt
  /\ fpc \notin {"start", "disc_recv", "failed", "abandoned"}
  /\ \E d \in DeviceStates \ {device} : device' = d
  /\ nExt' = nExt + 1
  /\ lastSet' = <<>>
  /\ justFailed' = FALSE
  /\ UNCHANGED <<sawPollFail, lastPut, fpc, poll, name, url, status, locked, call, current, pre, reqs,
                 ret, afterFail, ppc, pollResp, pollFailed, cancelClosed,
                 cacheFrom, nOps, nTicks>>
  /\ UNCHANGED disc

(* --------------------------- the controller ---------------------------- *)
Next ==
  \/ \E p \in BOOLEAN : NewFromIp(p)
  \/ CreateResp
  \/ \E c \in SetterCalls : SetCall(c)
  \/ PutResp
  \/ Get
  \/ GetCall
  \/ GetResp
  \/ PollTick
  \/ PollWrite
  \/ PollExit
  \/ Drop
  \/ ExternalChange

Spec == Init /\ [][Next]_vars

(* ------------------------------ discovery ------------------------------ *)
\* the name new_from_name is asked for
Wanted == "Key Light Left"

\* the services the browser can report: name, address (as the string the record
\* carries) and port
Services ==
  { [name |-> "Key Light Left", address |-> "10.0.1.32", port |-> 9123],
    [name |-> "Key Light Left", address |-> "10.0.1.40", port |-> 9123],
    [name |-> "Key Light Right", address |-> "10.0.1.33", port |-> 9123],
    [name |-> "key light left", address |-> "10.0.1.34", port |-> 9123],
    [name |-> "Key Light Left", address |-> "fe80::1", port |-> 9123] }

\* Ipv4Addr::from_str: the four octets of a dotted quad, an error for anything else
Ipv4FromStr(s) ==
  CASE s = "10.0.1.32" -> Ok(<<10, 0, 1, 32>>)
    [] s = "10.0.1.33" -> Ok(<<10, 0, 1, 33>>)
    [] s = "10.0.1.34" -> Ok(<<10, 0, 1, 34>>)
    [] s = "10.0.1.40" -> Ok(<<10, 0, 1, 40>>)
    [] OTHER -> Err("IPError")

\* ip.to_string(), as used by format!("http://{}:{}/elgato/lights", ...)
Ipv4ToString(a) ==
  CASE a = <<10, 0, 1, 32>> -> "10.0.1.32"
    [] a = <<10, 0, 1, 33>> -> "10.0.1.33"
    [] a = <<10, 0, 1, 34>> -> "10.0.1.34"
    [] a = <<10, 0, 1, 40>> -> "10.0.1.40"

\* tx lives in the browser's callback, which the worker owns while it runs
TxAlive == wpc = "browsing"

\* crx lives in the worker's closure
CrxAlive == wpc = "browsing"

\* new_from_name(name, poll): the channels are made and the worker is spawned
NewFromName(p) ==
  /\ fpc = "start"
  /\ fpc' = "disc_recv"
  /\ poll' = p
  /\ wpc' = "browsing"
  /\ rxAlive' = TRUE
  /\ ctxAlive' = TRUE
  /\ UNCHANGED <<sawPollFail, lastPut, name, url, status, locked, call, current, pre, reqs, ret,
                 justFailed, afterFail, device, ppc, pollResp, pollFailed,
                 cancelClosed, cacheFrom, lastSet, nOps, nTicks, nExt>>
  /\ UNCHANGED <<rxq, crxMsg, annLog, found>>

\* the callback without its filter: every service is forwarded
Matches_Any(svc) == TRUE

\* if res.name() == &name
Matches(svc) == svc.name = Wanted

\* the service-discovered callback, run by event_loop.poll for one announcement:
\* if res.name() == &name { let _ = tx.blocking_send(res); }
\* blocking_send waits while the channel is full and fails, ignored, once rx is dropped
Announce(svc) ==
  /\ wpc = "browsing"
  /\ Len(annLog) < MaxAnnounce
  /\ (Matches(svc) /\ rxAlive) => Len(rxq) < ChannelCap
  /\ annLog' = Append(annLog, svc)
  /\ rxq' = IF Matches(svc) /\ rxAlive THEN Append(rxq, svc) ELSE rxq
  /\ UNCHANGED ctl
  /\ UNCHANGED <<wpc, rxAlive, crxMsg, ctxAlive, found>>

\* the Disconnected arm treated like Empty: only a message stops the loop
StopSeen_MessageOnly == crxMsg > 0

\* crx.try_recv() is Ok(_) with a message queued, Err(Disconnected) once ctx is
\* dropped with nothing queued, and Err(Empty) otherwise
StopSeen == crxMsg > 0 \/ ~ctxAlive

\* match crx.try_recv() { Ok(_) => return, Err(Empty) => {}, Err(Disconnected) => return }
WorkerExit ==
  /\ wpc = "browsing"
  /\ StopSeen
  /\ wpc' = "exited"
  /\ crxMsg' = 0
  /\ UNCHANGED ctl
  /\ UNCHANGED <<rxq, rxAlive, ctxAlive, annLog, found>>

\* event_loop.poll(..).unwrap() or, in the callback, result.unwrap() on an Err:
\* the worker panics and its closure, with tx and crx, is dropped
WorkerPanic ==
  /\ wpc = "browsing"
  /\ wpc' = "panicked"
  /\ crxMsg' = 0
  /\ UNCHANGED ctl
  /\ UNCHANGED <<rxq, rxAlive, ctxAlive, annLog, found>>

\* a receive that does not wait (try_recv): None whenever the channel is empty
RecvReady_NoWait == TRUE

\* rx.recv().await: the oldest queued service, None once the channel is empty
\* and closed, and pending otherwise
RecvReady == rxq # <<>> \/ ~TxAlive

\* let m = rx.recv().await.ok_or(DiscoverError)?;  ctx.send(true)?;
\* let addr = Ipv4Addr::from_str(&m.address())?;  create(m.name(), addr, *m.port(), poll)
\* An early return drops rx and ctx.
DiscRecv ==
  /\ fpc = "disc_recv"
  /\ RecvReady
  /\ IF rxq = <<>>
       THEN /\ ret' = Ret("create", Err("DiscoverError"))
            /\ fpc' = "failed"
            /\ rxAlive' = FALSE
            /\ ctxAlive' = FALSE
            /\ UNCHANGED <<rxq, found, crxMsg, name, url, reqs>>
       ELSE LET m == Head(rxq)
                addr == Ipv4FromStr(m.address)
            IN /\ rxq' = Tail(rxq)
               /\ found' = <<m>>
               /\ IF ~CrxAlive
                    THEN /\ ret' = Ret("create", Err("CancelError"))
                         /\ fpc' = "failed"
                         /\ rxAlive' = FALSE
                         /\ ctxAlive' = FALSE
                         /\ UNCHANGED <<crxMsg, name, url, reqs>>
                    ELSE /\ crxMsg' = crxMsg + 1
                         /\ IF ~addr.ok
                              THEN /\ ret' = Ret("create", addr)
                                   /\ fpc' = "failed"
                                   /\ rxAlive' = FALSE
                                   /\ ctxAlive' = FALSE
                                   /\ UNCHANGED <<name, url, reqs>>
                              ELSE /\ fpc' = "creating"
                                   /\ name' = m.name
                                   /\ url' = [address |-> Ipv4ToString(addr.val[1]),
                                              port |-> m.port]
                                   /\ reqs' = 1
                                   /\ UNCHANGED <<ret, rxAlive, ctxAlive>>
  /\ UNCHANGED <<poll, status, locked, call, current, pre, justFailed, afterFail,
                 sawPollFail, lastPut, device, ppc, pollResp, pollFailed, cancelClosed, cacheFrom,
                 lastSet, nOps, nTicks, nExt>>
  /\ UNCHANGED <<wpc, annLog>>

\* the caller drops the future of new_from_name while it waits in rx.recv()
CallerAbandon ==
  /\ fpc = "disc_recv"
  /\ fpc' = "abandoned"
  /\ rxAlive' = FALSE
  /\ ctxAlive' = FALSE
  /\ UNCHANGED <<sawPollFail, lastPut, poll, name, url, status, locked, call, current, pre, reqs, ret,
                 justFailed, afterFail, device, ppc, pollResp, pollFailed,
                 cancelClosed, cacheFrom, lastSet, nOps, nTicks, nExt>>
  /\ UNCHANGED <<wpc, rxq, crxMsg, annLog, found>>

NextDiscovery ==
  \/ \E p \in BOOLEAN : NewFromName(p)
  \/ \E svc \in Services : Announce(svc)
  \/ WorkerExit
  \/ WorkerPanic
  \/ DiscRecv
  \/ CallerAbandon
  \/ CreateResp

SpecDiscovery == Init /\ [][NextDiscovery]_vars

\* The worker is a thread of its own (spawn_blocking) whose loop comes back to
\* crx.try_recv() after every event_loop.poll of at most 500 ms: a stop it can
\* see for good is seen.
SpecDiscoveryLive == SpecDiscovery /\ WF_vars(WorkerExit)

(* ======================================================================= *)
(*                                 claims                                  *)
(* ======================================================================= *)
PostConstruction == fpc \in {"idle", "set_put", "get_fetch", "dropped"}

\* the field a setter writes
FieldOf(op, l) ==
  CASE op = "set_power" -> l.on
    [] op = "set_temperature" -> l.temperature
    [] OTHER -> l.brightness

\* the status s shows the change committed by the setter call recorded in c
HasChange(s, c) ==
  /\ Len(s.lights) = Len(c.status.lights)
  /\ \A i \in 1..Len(s.lights) : FieldOf(c.op, s.lights[i]) = FieldOf(c.op, c.status.lights[i])

C2_NonSuccessPutFails ==
  (ret.op \in SetterNames /\ lastPut.transport /\ ~lastPut.success)
    => (~ret.ok /\ ret.err = "RequestError" /\ lastSet = <<>>)

(* C3: once construction has succeeded, the cached Status always comes from a  *)
(* successful fetch or from a push the device answered with success.           *)
C3_CacheConfirmed ==
  PostConstruction => (cacheFrom.via \in {"fetch", "push"} /\ cacheFrom.success)

(* C4: in Polled mode, after a setter has returned success (its PUT accepted   *)
(* by the device), a later get() with no setter call and no external change in *)
(* between returns a Status that shows the setter's change.                    *)
C4_SetterVisibleToGet ==
  (poll /\ ret.op = "get" /\ lastSet # <<>> /\ lastSet[1].accepted)
    => (ret.ok /\ HasChange(ret.val[1], lastSet[1]))

(* C5: from the moment a setter has cloned the cache until it commits or      *)
(* aborts, the mutex is held and nothing else writes the cache: the cache      *)
(* stays as the setter found it, and what the setter commits is the cache as   *)
(* it stands at commit time with that setter's mutation applied.               *)
C5_LockHeldAcrossSetter ==
  [][ fpc = "set_put" =>
        /\ locked
        /\ status = pre
        /\ current = Mutate(call, status)
        /\ \/ status' = status
           \/ fpc' = "idle" /\ ret'.ok /\ status' = Mutate(call, status) ]_vars

\* a setter holds the lock, its PUT in flight, while the poll task holds a
\* decoded response that differs from the cache and waits to write it
C5_Witness ==
  /\ fpc = "set_put"
  /\ current # status
  /\ ppc = "fetched"
  /\ PollDecode(pollResp).ok
  /\ pollResp.body # <<status>>

(* C6: in Polled mode get() sends no request and returns a copy of the cache   *)
(* as it is now; in Unpolled mode every get() sends exactly one GET and        *)
(* returns what get_status makes of the answer, value or error.                *)
C6_GetByMode ==
  [][ /\ poll => fpc' # "get_fetch"
      /\ (fpc = "idle" /\ nOps' # nOps /\ ~poll) => ret'.op # "get"
      /\ (fpc = "idle" /\ nOps' # nOps /\ ret'.op = "get")
           => (poll /\ reqs' = 0 /\ ret' = Ret("get", Ok(status)) /\ status' = status)
      /\ (fpc = "get_fetch" /\ fpc' # "get_fetch")
           => /\ ~poll
              /\ reqs = 1 /\ reqs' = 1
              /\ \E r \in GetResponses(device) : ret' = Ret("get", get_status(r)) ]_vars

\* an Unpolled get() that sent its one GET and returned a value that is not
\* the cached one
C6_Witness ==
  /\ ~poll
  /\ ret.op = "get" /\ ret.ok
  /\ reqs = 1
  /\ ret.val # <<status>>

(* C7: once construction has succeeded in Polled mode, get() never returns an  *)
(* error, whatever refreshes of the poll task have failed.                     *)
C7_PolledGetNeverFails ==
  (poll /\ ret.op = "get") => (ret.ok /\ ret.err = "")

\* a polled get() issued after a refresh had failed
C7_Witness ==
  /\ poll
  /\ ret.op = "get" /\ ret.ok
  /\ sawPollFail

(* C8: create is fail-fast and seeds the cache: when the first fetch fails it  *)
(* returns the error, no controller exists afterwards and no poll task is      *)
(* spawned; when it succeeds the cache is the fetched Status when the          *)
(* controller is returned, the poll task is spawned exactly when polling was   *)
(* asked for, and the mode never changes afterwards.                           *)
C8_CreateFailFast ==
  [][ /\ (fpc = "creating" /\ fpc' # "creating")
           => /\ ret'.op = "create"
              /\ IF ret'.ok
                   THEN /\ fpc' = "idle"
                        /\ status' = ret'.val[1]
                        /\ status' = device
                        /\ ppc' = "waiting" <=> poll
                        /\ ppc' = "off" <=> ~poll
                   ELSE /\ fpc' = "failed"
                        /\ ppc' = "off"
                        /\ status' = status
      /\ fpc # "start" => poll' = poll
      /\ fpc = "failed" => (fpc' = "failed" /\ ppc' = "off")
      /\ (ppc = "off" /\ ppc' # "off") => fpc = "creating"
      /\ (fpc = "creating") => (status = DefaultStatus /\ ppc = "off") ]_vars

\* a Polled controller just returned by create: the cache is the fetched
\* Status and the poll task, spawned, has not ticked yet
C8_Witness ==
  /\ fpc = "idle" /\ nOps = 0
  /\ ret.op = "create" /\ ret.ok
  /\ poll /\ ppc = "waiting" /\ nTicks = 0
  /\ status = ret.val[1]
  /\ status # DefaultStatus

HasMatch(log) == \E i \in 1..Len(log) : log[i].name = Wanted

FirstMatch(log) ==
  log[CHOOSE i \in 1..Len(log) :
        log[i].name = Wanted /\ \A j \in 1..(i - 1) : log[j].name # Wanted]

\* what discovery has handed over so far is the first announced match
C9_Delivered ==
  /\ \A i \in 1..Len(rxq) : rxq[i].name = Wanted
  /\ found # <<>> => (HasMatch(annLog) /\ found[1] = FirstMatch(annLog))
  /\ fpc \in {"creating", "idle"}
       => /\ found # <<>>
          /\ name = found[1].name
          /\ url = [address |-> found[1].address, port |-> found[1].port]

(* C9: discovery by name hands the caller the first announced service whose    *)
(* name equals the requested name exactly; an announcement with another name   *)
(* is never delivered and never stops the browse loop, and a match announced   *)
(* after the first one does not change the result.                             *)
C9_FirstMatchWins ==
  [][ /\ C9_Delivered
      /\ C9_Delivered'
      /\ found # <<>> => found' = found
      /\ (Len(annLog') > Len(annLog) /\ annLog'[Len(annLog')].name # Wanted)
           => (wpc' = wpc /\ rxq' = rxq /\ found' = found /\ fpc' = fpc /\ ret' = ret) ]_vars

\* a non-matching announcement, then the match the caller got, then another
\* match, while create is under way with the first match's address
C9_Witness ==
  /\ fpc = "creating"
  /\ found # <<>>
  /\ Len(annLog) = 3
  /\ annLog[1].name # Wanted
  /\ annLog[2] = found[1]
  /\ annLog[3].name = Wanted
  /\ annLog[3] # annLog[2]
  /\ url.address = annLog[2].address

(* C10: while no service with the requested name has been announced and the    *)
(* worker is running, new_from_name does not return; DiscoverError is returned *)
(* only when the result channel was closed with no match delivered.            *)
C10_BlocksUntilMatchOrClose ==
  /\ fpc \notin {"start", "disc_recv", "abandoned"}
       => (HasMatch(annLog) \/ wpc = "panicked")
  /\ ret.err = "DiscoverError"
       => (fpc = "failed" /\ wpc # "browsing" /\ ~HasMatch(annLog) /\ found = <<>>)
  /\ (fpc = "disc_recv" /\ wpc = "browsing" /\ ~HasMatch(annLog)) => ~ENABLED DiscRecv

\* the caller still waits after two announcements, neither with the wanted name
C10_Witness ==
  /\ fpc = "disc_recv"
  /\ wpc = "browsing"
  /\ Len(annLog) >= 2
  /\ ~HasMatch(annLog)
  /\ ~ENABLED DiscRecv

(* ------------------ the setters over their whole inputs ----------------- *)
\* what the device may have reported at construction: one, two or three lights
StatusInputs ==
  { Status(1, <<Light(0, 50, 200)>>),
    Status(2, <<Light(1, 10, 143), Light(0, 95, 344)>>),
    Status(3, <<Light(1, 0, 143), Light(1, 100, 250), Light(0, 37, 344)>>) }

\* set_power(bool), set_brightness(u8), set_temperature(u32) around the Kelvin
\* range and far from it, set_relative_brightness(f64) in steps of 0.005
WideSetterCalls ==
  { [op |-> "set_power", arg |-> p] : p \in {0, 1} }
  \cup { [op |-> "set_brightness", arg |-> b] : b \in 0..255 }
  \cup { [op |-> "set_temperature", arg |-> k] : k \in (2800..7100) \cup {0, 100000} }
  \cup { [op |-> "set_relative_brightness", arg |-> 5 * j] : j \in -220..220 }

\* an Unpolled controller as new_from_ip returns it, with one call left to make
InitSetters ==
  /\ fpc = "idle"
  /\ poll = FALSE
  /\ name = "Key Light 2000"
  /\ url = [address |-> "10.0.1.32", port |-> DefaultPort]
  /\ status \in StatusInputs
  /\ device = status
  /\ locked = FALSE
  /\ call = NoCall
  /\ current = DefaultStatus
  /\ pre = DefaultStatus
  /\ reqs = 1
  /\ ret = Ret("create", Ok(status))
  /\ justFailed = FALSE
  /\ afterFail = FALSE
  /\ sawPollFail = FALSE
  /\ lastPut = NoResp
  /\ ppc = "off"
  /\ pollResp = NoResp
  /\ pollFailed = FALSE
  /\ cancelClosed = FALSE
  /\ cacheFrom = [via |-> "fetch", success |-> TRUE]
  /\ lastSet = <<>>
  /\ nOps = MaxOps - 1
  /\ nTicks = 0
  /\ nExt = 0
  /\ wpc = "none"
  /\ rxq = <<>>
  /\ rxAlive = FALSE
  /\ crxMsg = 0
  /\ ctxAlive = FALSE
  /\ annLog = <<>>
  /\ found = <<>>

NextSetters ==
  \/ \E c \in WideSetterCalls : SetCall(c)
  \/ PutResp

SpecSetters == InitSetters /\ [][NextSetters]_vars

\* new is old with the field of setter op, and nothing else, written on every light
OnlyFieldSet(op, old, new) ==
  /\ new.number_of_lights = old.number_of_lights
  /\ Len(new.lights) = Len(old.lights)
  /\ \A i \in 1..Len(old.lights) :
       /\ op # "set_power" => new.lights[i].on = old.lights[i].on
       /\ op \notin {"set_brightness", "set_relative_brightness"}
            => new.lights[i].brightness = old.lights[i].brightness
       /\ op # "set_temperature" => new.lights[i].temperature = old.lights[i].temperature
  /\ op # "set_relative_brightness" =>
       \A i, j \in 1..Len(new.lights) : FieldOf(op, new.lights[i]) = FieldOf(op, new.lights[j])

\* C11: every setter changes only its own field, uniformly on every light: when
\* the PUT comes back, the body that was sent is the pre-call cache with that one
\* field written on every light (number_of_lights, the number and order of the
\* lights and the two other fields as they were; set_power writes its argument),
\* and on success the cache becomes exactly that body.
C11_SetterFrame ==
  [][ (fpc = "set_put" /\ fpc' = "idle") =>
        /\ pre = status
        /\ OnlyFieldSet(call.op, pre, current)
        /\ call.op = "set_power" => \A i \in 1..Len(current.lights) : current.lights[i].on = call.arg
        /\ ret'.ok => status' = current
        /\ ~ret'.ok => status' = pre ]_vars

C11_Witness ==
  /\ fpc = "idle"
  /\ ret.op = "set_temperature"
  /\ ret.ok
  /\ lastSet # <<>>
  /\ Len(status.lights) = 3
  /\ status # pre
  /\ OnlyFieldSet("set_temperature", pre, status)

RECURSIVE SumBrightness(_)
\* the sum of the brightness values of the lights ls
SumBrightness(ls) ==
  IF ls = <<>> THEN 0 ELSE Head(ls).brightness + SumBrightness(Tail(ls))

\* C12: a successful set_relative_brightness(d) commits, on each light of
\* current brightness c, the brightness clamp(c + 100*d, 0, 100) (compared in
\* tenths), and returns the arithmetic mean of the lights' resulting brightness
\* values, which lies in [0,100].
C12_RelativeExact ==
  [][ (fpc = "set_put" /\ call.op = "set_relative_brightness" /\ fpc' = "idle" /\ ret'.ok
        /\ lastPut'.success) =>
        /\ \A i \in 1..Len(pre.lights) :
             10 * status'.lights[i].brightness
               = Clamp(10 * pre.lights[i].brightness + call.arg, 0, 1000)
        /\ ret'.val[1].count = Len(status'.lights)
        /\ ret'.val[1].count > 0
        /\ ret'.val[1].sum10 = 10 * SumBrightness(status'.lights)
        /\ ret'.val[1].sum10 \in 0..(1000 * ret'.val[1].count) ]_vars

\* C13: set_temperature(k) commits the linear map of the clamped Kelvin value
\* rounded to the nearest integer, round(143 + (clamp(k,2900,7000) - 2900) * 201 / 4100),
\* so that set_temperature(4950) commits 244.
C13_TempRounded ==
  [][ (fpc = "set_put" /\ call.op = "set_temperature" /\ fpc' = "idle" /\ ret'.ok
        /\ lastPut'.success) =>
        \A i \in 1..Len(status'.lights) :
          /\ status'.lights[i].temperature
               = CodeMin + (2 * (Clamp(call.arg, KelvinMin, KelvinMax) - KelvinMin)
                              * (CodeMax - CodeMin) + KelvinSpan) \div (2 * KelvinSpan)
          /\ call.arg = 4950 => status'.lights[i].temperature = 244 ]_vars

\* C14: the temperature code committed by set_temperature(k) lies in [143,344],
\* is 143 for every k <= 2900 and 344 for every k >= 7000, and is not below the
\* code of k - 1 (non-decreasing in k, over [2900,7000] and outside it).
C14_TempCodeRange ==
  [][ (fpc = "set_put" /\ call.op = "set_temperature" /\ fpc' = "idle" /\ ret'.ok) =>
        \A i \in 1..Len(status'.lights) :
          LET t == status'.lights[i].temperature
              k == call.arg
          IN /\ t \in CodeMin..CodeMax
             /\ k <= KelvinMin => t = CodeMin
             /\ k >= KelvinMax => t = CodeMax
             /\ k > 0 => TempCode(k - 1) <= t ]_vars

C14_Witness ==
  /\ fpc = "idle"
  /\ lastSet # <<>>
  /\ lastSet[1].op = "set_temperature"
  /\ status = lastSet[1].status
  /\ \A i \in 1..Len(status.lights) :
       status.lights[i].temperature \in (CodeMin + 1)..(CodeMax - 1)

\* C15: for every input b (a u8), a successful set_brightness(b) commits
\* brightness min(b,100) on every light, so every brightness it writes to the
\* cache is within [0,100].
C15_BrightnessCapped ==
  [][ (fpc = "set_put" /\ call.op = "set_brightness" /\ fpc' = "idle" /\ ret'.ok) =>
        \A i \in 1..Len(status'.lights) :
          /\ status'.lights[i].brightness
               = (IF call.arg < BrightnessMax THEN call.arg ELSE BrightnessMax)
          /\ status'.lights[i].brightness \in 0..BrightnessMax ]_vars

C15_Witness ==
  /\ fpc = "set_put"
  /\ call.op = "set_brightness"
  /\ call.arg > BrightnessMax
  /\ Len(current.lights) = 2
  /\ \A i \in 1..Len(current.lights) : current.lights[i].brightness = BrightnessMax

\* C16 (as stated): tearing down the controller sends no cancellation message
\* and so does not stop the PollLoop: after the drop the loop is still running.
C16_DropLeavesLoopRunning ==
  (poll /\ fpc = "dropped") => ppc \in {"waiting", "fetched"}

\* C16 (amended): the PollLoop exits only when cancel.recv() completes, and as
\* nothing ever sends a message that is only once the controller, which holds
\* the only Sender, has been dropped: while the controller is alive the loop
\* never exits, and once it is dropped the loop can return at its next select.
C16_LoopExitsOnlyOnDrop ==
  /\ cancelClosed <=> fpc = "dropped"
  /\ ppc = "exited" => (poll /\ fpc = "dropped")
  /\ (PostConstruction /\ poll /\ fpc # "dropped") => ppc \in {"waiting", "fetched"}
  /\ (fpc = "dropped" /\ ppc = "waiting") => ENABLED PollExit

C16_Witness ==
  /\ fpc = "dropped"
  /\ ppc = "exited"
  /\ nTicks >= 1

\* C17: on each PollLoop tick, when the fetch succeeds and decodes the cache is
\* overwritten with the fetched Status; when the request or the decoding fails
\* the cache is left exactly as it was and nothing is reported to the caller;
\* either way the loop goes back to waiting for its next tick.
C17_TickOutcome ==
  [][ (ppc = "fetched" /\ ppc' # "fetched") =>
        /\ ppc' = "waiting"
        /\ IF pollResp.transport /\ pollResp.body # <<>>
             THEN status' = pollResp.body[1]
             ELSE status' = status
        /\ ret' = ret
        /\ fpc' = fpc ]_vars

C17_Witness ==
  /\ ppc = "waiting"
  /\ pollFailed
  /\ nTicks = 2
  /\ nExt = 1
  /\ nOps = 0
  /\ cacheFrom.via = "fetch"
  /\ status = device

\* C18: a stop signal is sent to the discovery worker only when the first match
\* is delivered to the caller, one signal and never a second (none is needed when
\* the worker is already gone at that moment); after the delivery the worker's
\* browse loop eventually exits, and it eventually exits too when the caller
\* goes away without having sent the signal.
C18_WorkerStops ==
  /\ [][ crxMsg' > crxMsg =>
           (crxMsg = 0 /\ crxMsg' = 1 /\ found = <<>> /\ found' # <<>>) ]_vars
  /\ [][ (found = <<>> /\ found' # <<>>) => (crxMsg' = 1 \/ wpc # "browsing") ]_vars
  /\ (found # <<>>) ~> (wpc # "browsing")
  /\ (fpc = "abandoned") ~> (wpc # "browsing")

C18_Witness ==
  /\ found # <<>>
  /\ fpc = "idle"
  /\ wpc = "exited"
  /\ crxMsg = 0
  /\ Len(annLog) = MaxAnnounce

\* C19: the PollLoop never holds the cache lock while one of its requests is in
\* flight (from the tick that sends the GET until the response is decoded): the
\* lock is held only by a setter, so whatever the poll task is doing, an idle
\* caller's next setter or get() can start at once.
C19_PollNeverBlocksCaller ==
  /\ locked => fpc = "set_put"
  /\ (fpc = "idle" /\ nOps < MaxOps) =>
       /\ ~locked
       /\ \A c \in SetterCalls : ENABLED SetCall(c)
       /\ ENABLED (Get \/ GetCall)

C19_Witness ==
  /\ ppc = "fetched"
  /\ PollDecode(pollResp).ok
  /\ nTicks = MaxTicks
  /\ fpc = "idle"
  /\ nOps < MaxOps
  /\ ~locked

\* C20: in Unpolled mode, after construction, the cache changes only when a
\* setter's PUT has succeeded, and then to that PUT's body; a get() fetches from
\* the device and leaves the cache as it was; so the body of every PUT is the
\* setter's mutation of a cache made only of the construction-time Status and
\* this controller's own earlier successful setters.
C20_UnpolledCacheOnlySetters ==
  [][ (~poll /\ PostConstruction) =>
        /\ status' # status => (fpc = "set_put" /\ ret'.ok /\ status' = current)
        /\ fpc = "get_fetch" => (status' = status /\ reqs = 1)
        /\ fpc' = "set_put" => current' = Mutate(call', status') ]_vars

C20_Witness ==
  /\ ~poll
  /\ fpc = "idle"
  /\ ret.op = "get"
  /\ ret.ok
  /\ ret.val # <<status>>
  /\ cacheFrom.via = "fetch"

====
